---- MODULE Spec2Model ----
(***************************************************************************)
(* A model of the wavefile crate (src/src/lib.rs, src/src/formats.rs,      *)
(* src/src/error.rs): the chunk walker of WaveFile::open over a byte       *)
(* buffer, format validation, and the frame iterator.                      *)
(*                                                                         *)
(* The mapped file is a sequence of bytes (0..255).  Cursor positions are  *)
(* 0-based byte offsets as in std::io::Cursor; buf[p + 1] is the byte at   *)
(* offset p.                                                               *)
(***************************************************************************)
EXTENDS Integers, Sequences, FiniteSets, TLC

(***************************************************************************)
(* Bounds of the model.                                                    *)
(***************************************************************************)
\* most chunks in front of the file's last fmt chunk
MaxPre == 1
\* largest declared length of the data chunk, in bytes
MaxData == 8
\* bytes that follow the declared data region in files that carry more
Slack == 8
\* iterators obtained from one handle
NumIters == 2
\* calls of next() on an iterator that has already reported the end
MaxNones == 2

(***************************************************************************)
(* Program constants.                                                      *)
(***************************************************************************)
RIFF == 1179011410
WAVE == 1163280727
FMT_ == 544501094
DATA == 1635017060
LIST == 1414744396
FACT == 1952670054

FORMAT_PCM  == 1
FORMAT_IEEE == 3
FORMAT_EXT  == 65534

\* Option<T>: None is the empty sequence, Some(v) the one-element sequence
None == <<>>
Some(v) == <<v>>

\* Format::decode
decode(val) ==
  CASE val = FORMAT_PCM  -> Some("PCM")
    [] val = FORMAT_IEEE -> Some("IEEEFloat")
    [] val = FORMAT_EXT  -> Some("Extensible")
    [] OTHER             -> None

(***************************************************************************)
(* Little-endian reads of byteorder::ReadBytesExt on a Cursor<&[u8]>.      *)
(* A read of n bytes at offset p succeeds iff p + n <= Len(b); otherwise   *)
(* it is byteorder::Error::UnexpectedEOF.                                  *)
(***************************************************************************)
Avail(b, p, n) == p + n <= Len(b)

read_u8(b, p)  == b[p + 1]
read_u16(b, p) == b[p + 1] + 256 * b[p + 2]
read_u32(b, p) == b[p + 1] + 256 * b[p + 2] + 65536 * b[p + 3] + 16777216 * b[p + 4]
read_i16(b, p) == LET u == read_u16(b, p) IN IF u >= 32768 THEN u - 65536 ELSE u
read_i24(b, p) ==
  LET u == b[p + 1] + 256 * b[p + 2] + 65536 * b[p + 3]
  IN  IF u >= 8388608 THEN u - 16777216 ELSE u
read_i32(b, p) ==
  LET hi == IF b[p + 4] >= 128 THEN b[p + 4] - 256 ELSE b[p + 4]
  IN  b[p + 1] + 256 * b[p + 2] + 65536 * b[p + 3] + 16777216 * hi
\* read_f32 / read_f64: the IEEE bit pattern, kept as its bytes
read_bytes(b, p, n) == [k \in 1..n |-> b[p + k]]

(***************************************************************************)
(* Files.  A file is a RIFF header, chunks, and a tail.  The encoders      *)
(* below write the integers the readers above read.                        *)
(***************************************************************************)
LE16(n) == <<n % 256, n \div 256>>
LE32(n) == <<n % 256, (n \div 256) % 256, (n \div 65536) % 256, n \div 16777216>>

\* ids the walker does not know: "junk", and "RIFX" in place of "RIFF"
JunkId == <<106, 117, 110, 107>>
RifxId == <<82, 73, 70, 88>>

Zeros(n) == [k \in 1..n |-> 0]
\* the k-th payload byte (0-based) of a data chunk
DataByte(k) == (k * 77 + 131) % 256
Payload(n) == [k \in 1..n |-> DataByte(k - 1)]

RiffHeader(magic, form) == magic \o LE32(36) \o form

FmtFields(tag, ch, bps) ==
  LE16(tag) \o LE16(ch) \o LE32(8000) \o LE32(8000 * ch * (bps \div 8))
            \o LE16(ch * (bps \div 8)) \o LE16(bps)

\* a fmt chunk of declared size 16, or 18 with a zero cbSize
PlainFmt(tag, ch, bps, size) ==
  LE32(FMT_) \o LE32(size) \o FmtFields(tag, ch, bps) \o Zeros(size - 16)

\* a WAVEFORMATEXTENSIBLE fmt chunk: cbSize 22, valid bits, mask, GUID
ExtFmt(ch, bps, sub) ==
  LE32(FMT_) \o LE32(40) \o FmtFields(FORMAT_EXT, ch, bps) \o LE16(22)
             \o LE16(bps) \o LE32(3) \o LE16(sub) \o Zeros(14)

\* tagged Extensible, but with an empty extension block
ExtFmtNoExt(ch, bps) ==
  LE32(FMT_) \o LE32(18) \o FmtFields(FORMAT_EXT, ch, bps) \o LE16(0)

SkipChunk(id, n) == id \o LE32(n) \o Zeros(n)

DataChunk(d, p) == LE32(DATA) \o LE32(d) \o Payload(p)

BpsSet == {4, 8, 12, 16, 24, 32, 64}

MainFmts ==
  {PlainFmt(tag, ch, bps, 16) : tag \in {FORMAT_PCM, FORMAT_IEEE}, ch \in 0..2, bps \in BpsSet}
  \cup {PlainFmt(tag, 1, 16, 18) : tag \in {FORMAT_PCM, 2}}
  \cup {ExtFmt(cb[1], cb[2], sub) :
          cb \in {<<1, 16>>, <<1, 32>>, <<2, 32>>, <<0, 4>>, <<1, 4>>},
          sub \in {FORMAT_PCM, FORMAT_IEEE, FORMAT_EXT, 2}}
  \cup {ExtFmtNoExt(1, 16)}
  \cup {<<>>}

PreChunks == {SkipChunk(LE32(LIST), 2), SkipChunk(LE32(FACT), 4), ExtFmt(1, 16, FORMAT_PCM)}

RECURSIVE PreSeqs(_)
PreSeqs(n) ==
  IF n = 0 THEN {<<>>}
  ELSE PreSeqs(n - 1) \cup {s \o c : s \in PreSeqs(n - 1), c \in PreChunks}

\* the bytes present after a data header that declares d: all of them, one
\* short (a truncated file), or more (bytes follow the data chunk)
PayloadLens(d) == {d, d + Slack} \cup (IF d > 0 THEN {d - 1} ELSE {})

Tails ==
  {<<>>, SkipChunk(JunkId, 0), LE32(LIST) \o LE32(100), LE32(DATA)}
  \cup UNION {{DataChunk(d, p) : p \in PayloadLens(d)} : d \in 0..MaxData}

\* the fmt chunks and tails that follow the chunk sequences of PreSeqs
WalkFmts ==
  {PlainFmt(FORMAT_PCM, 1, 16, 16), PlainFmt(FORMAT_IEEE, 1, 32, 16),
   PlainFmt(FORMAT_PCM, 1, 4, 16), <<>>}

WalkTails ==
  {<<>>, SkipChunk(JunkId, 0), LE32(LIST) \o LE32(100), LE32(DATA),
   DataChunk(0, 0), DataChunk(4, 4)}

\* a fmt chunk for 8-bit mono PCM at the given sample rate
RateFmt(rate) ==
  LE32(FMT_) \o LE32(16) \o LE16(FORMAT_PCM) \o LE16(1) \o LE32(rate) \o LE32(rate)
             \o LE16(1) \o LE16(8)

\* headers for duration(): sample rates 0 and 8000, and data chunks that
\* declare 2 bytes or 5,000,000 bytes (of which the file holds two)
RateFiles ==
  {RiffHeader(LE32(RIFF), LE32(WAVE)) \o RateFmt(rate) \o DataChunk(d, 2) :
     rate \in {0, 8000}, d \in {2, 5000000}}

\* every fmt chunk and every tail behind a good header; every chunk
\* sequence in front of a few fmt chunks and tails; bad and cut headers
Files ==
  {RiffHeader(LE32(RIFF), LE32(WAVE)) \o f \o t : f \in MainFmts, t \in Tails}
  \cup RateFiles
  \cup {RiffHeader(LE32(RIFF), LE32(WAVE)) \o pre \o f \o t :
          pre \in PreSeqs(MaxPre), f \in WalkFmts, t \in WalkTails}
  \cup {RiffHeader(RifxId, LE32(WAVE)), RiffHeader(LE32(RIFF), JunkId),
        LE32(RIFF) \o LE32(36), <<82, 73, 70>>}
  \cup {RiffHeader(RifxId, LE32(WAVE)) \o PlainFmt(FORMAT_PCM, 1, 16, 16) \o DataChunk(2, 2)}

(***************************************************************************)
(* State.                                                                  *)
(***************************************************************************)
VARIABLES
  buf,         \* the mapped file (WaveFile.mmap), never written
  pc,          \* "start", "loop", "after_loop", "opened", "failed", "aborted"
  cursor,      \* read_chunks: cursor.position()
  have_fmt,    \* read_chunks: have_fmt
  seen,        \* history: the chunk ids the walker's loop has read
  info,        \* WaveFile.info
  data_offset, \* WaveFile.data_offset
  data_size,   \* WaveFile.data_size
  result,      \* what open returned: [kind, msg]
  it,          \* the iterators obtained from the handle
  fmt_chunk,   \* history: payload offset and declared size of the last fmt chunk
  dur          \* what the duration() call returned: [ret, ms]

vars == <<buf, pc, cursor, have_fmt, seen, info, data_offset, data_size, result, it,
          fmt_chunk, dur>>

handle == <<buf, info, data_offset, data_size>>

Iters == 1..NumIters

\* WaveError values, with the message the code formats (arguments dropped)
Err(kind, msg) == [kind |-> kind, msg |-> msg]
Pending == Err("Pending", "")
Ok == Err("Ok", "")
\* a conversion that files the end of the buffer under the I/O errors
UnexpectedEOF_as_io == Err("IoError", "Unexpected EOF")
\* From<byteorder::Error> for WaveError, on byteorder::Error::UnexpectedEOF
UnexpectedEOF == Err("ParseError", "Unexpected EOF")

\* the WaveInfo that open starts from
InitInfo ==
  [audio_format |-> "PCM", channels |-> 0, sample_rate |-> 0, byte_rate |-> 0,
   block_align |-> 0, bits_per_sample |-> 0, total_frames |-> 0,
   valid_bps |-> None, channel_mask |-> None, subformat |-> None]

NoIter ==
  [state |-> "absent", pos |-> 0, base |-> 0, end |-> 0, bytes_per_sample |-> 0,
   last |-> "", frames |-> <<>>, maxread |-> 0, short |-> FALSE, nones |-> 0]

\* duration() has not been called
NoDuration == [ret |-> "", ms |-> 0]

Init ==
  /\ buf \in Files
  /\ pc = "start"
  /\ cursor = 0
  /\ have_fmt = FALSE
  /\ seen = <<>>
  /\ info = InitInfo
  /\ data_offset = 0
  /\ data_size = 0
  /\ result = Pending
  /\ it = [i \in Iters |-> NoIter]
  /\ fmt_chunk = [start |-> 0, size |-> 0]
  /\ dur = NoDuration

(***************************************************************************)
(* WaveFile::open: read_chunks, read_format_chunk, validate_format.        *)
(***************************************************************************)
Fail(e) ==
  /\ pc' = "failed"
  /\ result' = e
  /\ UNCHANGED <<buf, cursor, have_fmt, info, data_offset, data_size, it>>

\* read_chunks, up to the loop: the RIFF id, the size and the form type
ReadRiffHeader ==
  /\ pc = "start"
  /\ UNCHANGED <<seen, fmt_chunk, dur>>
  /\ IF ~Avail(buf, 0, 12)
       THEN Fail(UnexpectedEOF)
       ELSE IF read_u32(buf, 0) # RIFF \/ read_u32(buf, 8) # WAVE
              THEN Fail(Err("ParseError", "Not a Wavefile"))
              ELSE /\ pc' = "loop"
                   /\ cursor' = 12
                   /\ UNCHANGED <<buf, have_fmt, info, data_offset, data_size, result, it>>

\* read_format_chunk(info, cursor) with the cursor at offset c: the error,
\* or the updated info and the cursor's new position
read_format_chunk(inf, c) ==
  IF ~Avail(buf, c, 2) THEN [err |-> UnexpectedEOF, info |-> inf, cursor |-> c]
  ELSE
  LET fmt == read_u16(buf, c)
      f   == decode(fmt)
  IN
  IF f = None THEN [err |-> Err("ParseError", "Unexpected format"), info |-> inf, cursor |-> c]
  ELSE IF ~Avail(buf, c + 2, 14) THEN [err |-> UnexpectedEOF, info |-> inf, cursor |-> c]
  ELSE
  LET i1 == [inf EXCEPT !.audio_format    = f[1],
                        !.channels        = read_u16(buf, c + 2),
                        !.sample_rate     = read_u32(buf, c + 4),
                        !.byte_rate       = read_u32(buf, c + 8),
                        !.block_align     = read_u16(buf, c + 12),
                        !.bits_per_sample = read_u16(buf, c + 14)]
  IN
  IF i1.audio_format # "Extensible" THEN [err |-> Ok, info |-> i1, cursor |-> c + 16]
  ELSE IF ~Avail(buf, c + 16, 2) THEN [err |-> UnexpectedEOF, info |-> i1, cursor |-> c]
  ELSE IF read_u16(buf, c + 16) # 22
    THEN [err |-> Err("ParseError", "Unexpected extension size"), info |-> i1, cursor |-> c]
  ELSE IF ~Avail(buf, c + 18, 8) THEN [err |-> UnexpectedEOF, info |-> i1, cursor |-> c]
  ELSE
  LET subformat == read_u16(buf, c + 24)
      sf        == decode(subformat)
  IN
  IF sf = None
    THEN [err |-> Err("ParseError", "Unexpected subformat"), info |-> i1, cursor |-> c]
    \* cursor.seek(SeekFrom::Current(14)) moves the position, also past the end
    ELSE [err    |-> Ok,
          info   |-> [i1 EXCEPT !.valid_bps    = Some(read_u16(buf, c + 18)),
                                !.channel_mask = Some(read_u32(buf, c + 20)),
                                !.subformat    = sf],
          cursor |-> c + 26 + 14]

\* the match on chunk_id in the loop of read_chunks
chunk_arm(chunk_id) ==
  CASE chunk_id = FMT_ -> "fmt"
    [] chunk_id = DATA -> "data"
    [] chunk_id = LIST -> "skip"
    [] chunk_id = FACT -> "skip"
    [] OTHER           -> "other"

\* one iteration of the loop of read_chunks
ReadChunk ==
  /\ pc = "loop"
  /\ UNCHANGED dur
  /\ IF ~Avail(buf, cursor, 8)
       THEN Fail(UnexpectedEOF) /\ UNCHANGED <<seen, fmt_chunk>>
       ELSE
       LET chunk_id   == read_u32(buf, cursor)
           chunk_size == read_u32(buf, cursor + 4)
           c          == cursor + 8
           arm        == chunk_arm(chunk_id)
       IN
       /\ seen' = Append(seen, chunk_id)
       /\ fmt_chunk' = IF arm = "fmt" THEN [start |-> c, size |-> chunk_size] ELSE fmt_chunk
       /\ CASE arm = "fmt" ->
                 LET r == read_format_chunk(info, c) IN
                 IF r.err # Ok THEN Fail(r.err)
                 ELSE /\ info' = r.info
                      /\ cursor' = r.cursor
                      /\ have_fmt' = TRUE
                      /\ UNCHANGED <<buf, pc, data_offset, data_size, result, it>>
            [] arm = "data" ->
                 /\ data_size' = chunk_size
                 /\ cursor' = c
                 /\ pc' = "after_loop"
                 /\ UNCHANGED <<buf, have_fmt, info, data_offset, result, it>>
            [] arm = "skip" ->
                 \* cursor.seek(SeekFrom::Current(chunk_size as i64)): the sum is
                 \* neither negative nor overflowing, so the seek succeeds
                 /\ cursor' = c + chunk_size
                 /\ UNCHANGED <<buf, pc, have_fmt, info, data_offset, data_size, result, it>>
            [] OTHER ->
                 Fail(Err("ParseError", "Unexpected Chunk ID"))

\* WaveFile::data_format; unwrap() of None panics
data_format(inf) ==
  IF inf.audio_format = "Extensible"
    THEN IF inf.subformat = None THEN "Panic" ELSE inf.subformat[1]
    ELSE inf.audio_format

\* the checks with the sample width looked at before the channel count
validate_format_bps_first(inf) ==
  LET bps == inf.bits_per_sample IN
  IF inf.bits_per_sample < 8 THEN Err("Unsupported", "Unsupported bits per sample")
  ELSE IF inf.channels = 0 THEN Err("ParseError", "No audio channels present")
  ELSE IF data_format(inf) = "Panic" THEN Err("Panic", "unwrap on None")
  ELSE IF data_format(inf) = "IEEEFloat" /\ ~(bps = 32 \/ bps = 64)
    THEN Err("Unsupported", "Unsupported bits per sample for floating point data")
  ELSE Ok

\* WaveFile::validate_format
validate_format(inf) ==
  LET bps == inf.bits_per_sample IN
  IF inf.channels = 0 THEN Err("ParseError", "No audio channels present")
  ELSE IF inf.bits_per_sample < 8 THEN Err("Unsupported", "Unsupported bits per sample")
  ELSE IF data_format(inf) = "Panic" THEN Err("Panic", "unwrap on None")
  ELSE IF data_format(inf) = "IEEEFloat" /\ ~(bps = 32 \/ bps = 64)
    THEN Err("Unsupported", "Unsupported bits per sample for floating point data")
  ELSE Ok

\* the frame size taken as channels times whole bytes per sample
total_frames_bytes_first(size, channels, bps) == size \div (channels * (bps \div 8))

\* self.data_size as u32 / (channels as u32 * bits_per_sample as u32 / 8)
total_frames(size, channels, bps) == size \div ((channels * bps) \div 8)

\* read_chunks after the loop
FinishOpen ==
  /\ pc = "after_loop"
  /\ UNCHANGED <<seen, fmt_chunk, dur>>
  /\ IF ~have_fmt THEN Fail(Err("ParseError", "No format chunk found"))
     ELSE IF validate_format(info) # Ok THEN Fail(validate_format(info))
     ELSE /\ info' = [info EXCEPT !.total_frames =
                         total_frames(data_size, info.channels, info.bits_per_sample)]
          /\ data_offset' = cursor
          /\ pc' = "opened"
          /\ result' = Ok
          /\ UNCHANGED <<buf, cursor, have_fmt, data_size, it>>

(***************************************************************************)
(* WaveFile::iter and WaveFileIterator::next.                              *)
(*                                                                         *)
(* A sample is the pair <<m, e>> for the value m * 2^e (PCM), or the bytes *)
(* of its IEEE bit pattern (float).  A frame is a sequence of samples.     *)
(***************************************************************************)
RECURSIVE Pow2(_)
Pow2(n) == IF n = 0 THEN 1 ELSE 2 * Pow2(n - 1)

RECURSIVE BitLen(_)
\* the number of bits of n >= 0
BitLen(n) == IF n = 0 THEN 0 ELSE 1 + BitLen(n \div 2)

\* `sample as f32` for an integer: <<m, e>> with sample rounded to 24
\* significant bits, ties to even
as_f32(n) ==
  LET a == IF n < 0 THEN 0 - n - (IF n = -2147483647 - 1 THEN 1 ELSE 0) ELSE n
      k == BitLen(a)
  IN  IF n = -2147483647 - 1 THEN <<-1, 31>>
      ELSE IF k <= 24 THEN <<n, 0>>
      ELSE LET sh == k - 24
               q  == a \div Pow2(sh)
               r  == a % Pow2(sh)
               h  == Pow2(sh - 1)
               up == r > h \/ (r = h /\ q % 2 = 1)
               m  == IF up THEN q + 1 ELSE q
           IN  <<IF n < 0 THEN 0 - m ELSE m, sh>>

\* the decoders with the 8-bit sample taken as it is, without the offset
pcm_sample_no_offset(b, p, w) ==
  CASE w = 1 -> <<read_u8(b, p), -7>>
    [] w = 2 -> <<as_f32(read_i16(b, p))[1], -15>>
    [] w = 3 -> <<as_f32(read_i24(b, p))[1], -23>>
    [] w = 4 -> LET f == as_f32(read_i32(b, p)) IN <<f[1], f[2] - 31>>

\* the sample that next_pcm8 / 16 / 24 / 32 pushes for the bytes at offset p
pcm_sample(b, p, w) ==
  CASE w = 1 -> <<read_u8(b, p) - 128, -7>>
    [] w = 2 -> <<as_f32(read_i16(b, p))[1], -15>>
    [] w = 3 -> <<as_f32(read_i24(b, p))[1], -23>>
    [] w = 4 -> LET f == as_f32(read_i32(b, p)) IN <<f[1], f[2] - 31>>

\* next_pcmN / next_floatN: `channels` reads of w bytes from offset p; a
\* read that meets the end of the buffer panics
read_frame(b, p, channels, w, fmt) ==
  IF ~Avail(b, p, channels * w)
    THEN [ret |-> "Panic", short |-> TRUE, frame |-> <<>>, new_pos |-> p,
          read_to |-> IF p < Len(b) THEN Len(b) ELSE 0]
    ELSE [ret |-> "Some", short |-> FALSE,
          frame |-> [c \in 1..channels |->
                       IF fmt = "PCM" THEN pcm_sample(b, p + (c - 1) * w, w)
                                      ELSE read_bytes(b, p + (c - 1) * w, w)],
          new_pos |-> p + channels * w,
          read_to |-> p + channels * w]

Unreachable(p) ==
  [ret |-> "Panic", short |-> FALSE, frame |-> <<>>, new_pos |-> p, read_to |-> 0]

\* WaveFileIterator::next_pcm
next_pcm(b, p, channels, bps) ==
  IF bps \in 1..4 THEN read_frame(b, p, channels, bps, "PCM") ELSE Unreachable(p)

\* WaveFileIterator::next_float
next_float(b, p, channels, bps) ==
  IF bps \in {4, 8} THEN read_frame(b, p, channels, bps, "IEEEFloat") ELSE Unreachable(p)

\* a next() that rewinds to the start of the data when it reports the end
next_rewind(itr) ==
  LET position == itr.base + itr.pos IN
  IF position = itr.end
    THEN [ret |-> "None", short |-> FALSE, frame |-> <<>>, new_pos |-> itr.base, read_to |-> 0]
    ELSE CASE data_format(info) = "PCM" ->
                next_pcm(buf, position, info.channels, itr.bytes_per_sample)
           [] data_format(info) = "IEEEFloat" ->
                next_float(buf, position, info.channels, itr.bytes_per_sample)
           [] OTHER -> Unreachable(position)

\* WaveFileIterator::next on iterator state itr: what it returns, and the
\* position it leaves.  seek(SeekFrom::Start(..)) cannot fail.
next(itr) ==
  LET position == itr.base + itr.pos IN
  IF position = itr.end
    THEN [ret |-> "None", short |-> FALSE, frame |-> <<>>, new_pos |-> position, read_to |-> 0]
    ELSE CASE data_format(info) = "PCM" ->
                next_pcm(buf, position, info.channels, itr.bytes_per_sample)
           [] data_format(info) = "IEEEFloat" ->
                next_float(buf, position, info.channels, itr.bytes_per_sample)
           [] OTHER -> Unreachable(position)

\* WaveFile::iter
iter ==
  [state |-> "live", pos |-> 0, base |-> data_offset, end |-> data_offset + data_size,
   bytes_per_sample |-> info.bits_per_sample \div 8,
   last |-> "", frames |-> <<>>, maxread |-> 0, short |-> FALSE, nones |-> 0]

Iter(i) ==
  /\ pc = "opened"
  /\ it[i].state = "absent"
  /\ it' = [it EXCEPT ![i] = iter]
  /\ UNCHANGED <<buf, pc, cursor, have_fmt, seen, info, data_offset, data_size, result,
                 fmt_chunk, dur>>

Max(a, b) == IF a >= b THEN a ELSE b

\* a position kept once per file: every live iterator sees the new one
store_shared(i, new) ==
  [j \in Iters |-> IF j = i THEN new
                   ELSE IF it[j].state = "live" THEN [it[j] EXCEPT !.pos = new.pos]
                   ELSE it[j]]

\* `self.pos = new_pos - self.base` through `&mut self`: the iterator the
\* call was made on is the one written
store(i, new) == [it EXCEPT ![i] = new]

\* one call of next() on iterator i; a panic ends the program
NextFrame(i) ==
  /\ pc = "opened"
  /\ it[i].state = "live"
  /\ it[i].nones < MaxNones
  /\ LET r == next(it[i]) IN
     /\ it' = store(i, [it[i] EXCEPT
                 !.pos     = r.new_pos - it[i].base,
                 !.last    = r.ret,
                 !.short   = r.short,
                 !.frames  = IF r.ret = "Some" THEN Append(@, r.frame) ELSE @,
                 !.maxread = Max(@, r.read_to),
                 !.nones   = IF r.ret = "None" THEN @ + 1 ELSE @])
     /\ pc' = IF r.ret = "Panic" THEN "aborted" ELSE pc
  /\ UNCHANGED <<buf, cursor, have_fmt, seen, info, data_offset, data_size, result,
                 fmt_chunk, dur>>

\* (n * 1000) mod 2^32 for 0 <= n < 2^31, as the 16-bit halves <<hi, lo>>
wrapping_mul_1000(n) ==
  LET al == n % 65536
      ah == n \div 65536
  IN  <<(ah * 1000 + (al * 1000) \div 65536) % 65536, (al * 1000) % 65536>>

\* the u32 quotient of hi * 2^16 + lo by d, for 0 < d < 2^15
div_u32(hi, lo, d) ==
  LET r1 == hi % d IN (hi \div d) * 65536 + (r1 * 65536 + lo) \div d

\* WaveFile::duration: self.len() as u32 * 1000 / self.sample_rate().
\* The outcomes a build can produce: a product that does not fit u32
\* panics with overflow checks and wraps without them; a division by
\* zero panics.
duration(inf) ==
  LET tf == inf.total_frames
      sr == inf.sample_rate
      p  == wrapping_mul_1000(tf)
      divided == IF sr = 0 THEN [ret |-> "Panic", ms |-> 0]
                 ELSE [ret |-> "Ok", ms |-> div_u32(p[1], p[2], sr)]
  IN  IF tf >= 4294968
        THEN {[ret |-> "Panic", ms |-> 0], divided}
        ELSE {divided}

\* one call of duration() on the handle; a panic ends the program
Duration ==
  /\ pc = "opened"
  /\ dur = NoDuration
  /\ \E o \in duration(info) :
       /\ dur' = o
       /\ pc' = IF o.ret = "Panic" THEN "aborted" ELSE pc
  /\ UNCHANGED <<buf, cursor, have_fmt, seen, info, data_offset, data_size, result, it,
                 fmt_chunk>>

(***************************************************************************)
(* The PCM decoders on their own: the buffer is one raw sample of 1 to 4   *)
(* bytes, and one step decodes it as a one-channel frame of that width.    *)
(***************************************************************************)
ByteVals == {0, 1, 127, 128, 255}

SampleInputs == UNION {[1..w -> ByteVals] : w \in 1..4}

InitDecode ==
  /\ buf \in SampleInputs
  /\ pc = "decode"
  /\ cursor = 0
  /\ have_fmt = FALSE
  /\ seen = <<>>
  /\ info = InitInfo
  /\ data_offset = 0
  /\ data_size = 0
  /\ result = Pending
  /\ it = [i \in Iters |-> NoIter]
  /\ fmt_chunk = [start |-> 0, size |-> 0]
  /\ dur = NoDuration

\* next_pcm(cursor, 1, Len(buf)) at offset 0
DecodeSample ==
  /\ pc = "decode"
  /\ LET r == next_pcm(buf, 0, 1, Len(buf)) IN
     it' = store(1, [NoIter EXCEPT !.last = r.ret, !.frames = <<r.frame>>])
  /\ pc' = "decoded"
  /\ UNCHANGED <<buf, cursor, have_fmt, seen, info, data_offset, data_size, result,
                 fmt_chunk, dur>>

NextDecode == DecodeSample

SpecDecode == InitDecode /\ [][NextDecode]_vars

Next ==
  \/ ReadRiffHeader
  \/ ReadChunk
  \/ FinishOpen
  \/ \E i \in Iters : Iter(i)
  \/ \E i \in Iters : NextFrame(i)
  \/ Duration

Spec == Init /\ [][Next]_vars

(***************************************************************************)
(* Properties.                                                             *)
(***************************************************************************)
Range(s) == {s[k] : k \in 1..Len(s)}

\* the walker reached a data chunk after at least one fmt chunk
WalkComplete == have_fmt /\ seen # <<>> /\ seen[Len(seen)] = DATA

\* C1: on every opened file, an iterator yields exactly total_frames frames
\* and then reports the end of the sequence
C1_CountIsTotalFrames ==
  \A i \in Iters : it[i].state = "live" =>
    /\ Len(it[i].frames) <= info.total_frames
    /\ it[i].last = "None" => Len(it[i].frames) = info.total_frames
    /\ it[i].last # "Panic"

\* C2: an iterator's absolute position stays within [base, end] and no
\* next() reads a byte at an offset >= end
C2_PositionWithinData ==
  \A i \in Iters : it[i].state = "live" =>
    /\ it[i].base <= it[i].base + it[i].pos
    /\ it[i].base + it[i].pos <= it[i].end
    /\ it[i].maxread <= it[i].end

\* C3: a frame cut short by the end of the buffer is reported by next() as
\* an error result, neither as the end of the sequence nor by aborting
C3_ShortReadIsError ==
  \A i \in Iters : it[i].short => it[i].last \notin {"None", "Panic"}

\* C4: a handle whose audio_format is Extensible has subformat Some(PCM) or
\* Some(IEEEFloat)
C4_ExtensibleSubformatResolved ==
  (pc = "opened" /\ info.audio_format = "Extensible")
    => info.subformat \in {Some("PCM"), Some("IEEEFloat")}

\* C5: open returns a handle only for RIFF....WAVE followed by fmt / LIST /
\* fact chunks, one of them fmt, and then data; a walk that stops for any
\* other reason fails with ParseError; open never fails with an I/O error
\* and never panics
C5_WalkFailuresAreParseErrors ==
  /\ result.kind \in {"Pending", "Ok", "ParseError", "Unsupported"}
  /\ pc = "opened" =>
       /\ Avail(buf, 0, 12)
       /\ read_bytes(buf, 0, 4) = <<82, 73, 70, 70>>
       /\ read_bytes(buf, 8, 4) = <<87, 65, 86, 69>>
       /\ seen # <<>> /\ seen[Len(seen)] = DATA
       /\ \A k \in 1..(Len(seen) - 1) : seen[k] \in {FMT_, LIST, FACT}
       /\ FMT_ \in Range(seen)
  /\ (pc = "failed" /\ ~WalkComplete) => result.kind = "ParseError"

\* C5 witness: the buffer ended after a fmt chunk and before any data chunk
C5_Witness ==
  pc = "failed" /\ have_fmt /\ ~WalkComplete /\ result.msg = "Unexpected EOF"

\* the data length declared in the buffer, in front of the data offset
DeclaredDataLen == read_u32(buf, data_offset - 4)

\* C6: total_frames is the declared data length divided by
\* (channels * bits_per_sample / 8), both divisions truncating
C6_TotalFramesTruncates ==
  pc = "opened" =>
    LET cb == info.channels * info.bits_per_sample
        fs == CHOOSE f \in 0..cb : 8 * f <= cb /\ cb < 8 * (f + 1)
        tf == info.total_frames
    IN  fs > 0 /\ tf * fs <= DeclaredDataLen /\ DeclaredDataLen < (tf + 1) * fs

\* C6 witness: a handle whose data ends in a partial frame, with a sample
\* width that is not a whole number of bytes
C6_Witness ==
  /\ pc = "opened"
  /\ info.total_frames > 0
  /\ info.bits_per_sample % 8 # 0
  /\ info.channels = 2
  /\ data_size % ((info.channels * info.bits_per_sample) \div 8) # 0

\* C7: once next() has reported the end of the sequence, every later next()
\* on that iterator reports it again and yields no frame
C7_ExhaustedIsTerminal ==
  [][\A i \in Iters : it[i].last = "None" =>
        (it'[i].last = "None" /\ it'[i].frames = it[i].frames)]_vars

\* C7 witness: next() was called again on an iterator that had yielded
\* frames and reported the end
C7_Witness ==
  \E i \in Iters : it[i].nones >= 2 /\ Len(it[i].frames) >= 2

RECURSIVE run_alone(_, _)
\* what repeated next() calls yield on iterator state itr when nothing else
\* runs: the frames, up to the first None or panic, and how the run ended
run_alone(itr, acc) ==
  LET r == next(itr) IN
  IF r.ret = "Some"
    THEN run_alone([itr EXCEPT !.pos = r.new_pos - itr.base], Append(acc, r.frame))
    ELSE [frames |-> acc, ends |-> r.ret]

\* C8: under any interleaving each iterator yields what it yields alone, and
\* a next() on one iterator changes neither another iterator nor the handle
C8_IteratorsIndependent ==
  /\ [](\A i \in Iters : it[i].state = "live" =>
          LET a == run_alone(iter, <<>>)
              n == Len(it[i].frames)
          IN  /\ n <= Len(a.frames)
              /\ it[i].frames = SubSeq(a.frames, 1, n)
              /\ it[i].last \in {"None", "Panic"} => (n = Len(a.frames) /\ a.ends = it[i].last))
  /\ [][\A i, j \in Iters :
          (i # j /\ it[i].state = "live" /\ it'[i] # it[i])
            => (it'[j] = it[j] /\ handle' = handle)]_vars

\* C8 witness: two iterators over one handle at different positions, both
\* having yielded frames
C8_Witness ==
  /\ it[1].state = "live" /\ it[2].state = "live"
  /\ Len(it[1].frames) >= 2
  /\ Len(it[2].frames) >= 1
  /\ it[1].pos # it[2].pos

\* C9, as claimed: a fmt chunk that declares bits_per_sample < 8 makes open
\* fail with Unsupported whatever its other fields
C9_NarrowSamplesUnsupported ==
  (pc \in {"opened", "failed"} /\ WalkComplete /\ info.bits_per_sample < 8)
    => result.kind = "Unsupported"

\* C9, amended: when the fmt chunk parses and a data chunk is reached,
\* bits_per_sample < 8 makes open fail: with Unsupported if the chunk
\* declares a channel, with ParseError if it declares none
C9_NarrowSamplesRejected ==
  (pc \in {"opened", "failed"} /\ WalkComplete /\ info.bits_per_sample < 8)
    => result.kind = (IF info.channels = 0 THEN "ParseError" ELSE "Unsupported")

\* C9 witness: open has failed with Unsupported on a two-channel fmt chunk
\* of 4-bit samples
C9_Witness ==
  /\ pc = "failed" /\ WalkComplete
  /\ info.bits_per_sample = 4
  /\ info.channels = 2
  /\ result.kind = "Unsupported"

\* C10: on a handle, valid_bps, channel_mask and subformat are Some only if
\* audio_format is Extensible
C10_ExtensionOnlyForExtensible ==
  (pc = "opened" /\ info.audio_format # "Extensible")
    => (info.valid_bps = None /\ info.channel_mask = None /\ info.subformat = None)

\* C11: duration() returns floor(total_frames * 1000 / sample_rate) on every
\* handle, without wrap-around and without a division fault
C11_DurationIsFloor ==
  dur # NoDuration =>
    /\ dur.ret = "Ok"
    /\ info.sample_rate > 0
    /\ dur.ms = (info.total_frames \div info.sample_rate) * 1000
                  + ((info.total_frames % info.sample_rate) * 1000) \div info.sample_rate

\* the signed value of the raw sample in buf (8-bit: the byte less 128)
RawValue ==
  CASE Len(buf) = 1 -> read_u8(buf, 0) - 128
    [] Len(buf) = 2 -> read_i16(buf, 0)
    [] Len(buf) = 3 -> read_i24(buf, 0)
    [] Len(buf) = 4 -> read_i32(buf, 0)

\* the decoded sample of the one-sample buffer
Decoded == it[1].frames[1][1]

\* sample s = m * 2^e is the rational n / 2^k, that is m * 2^(e + k) = n
IsRational(s, n, k) ==
  LET t == s[2] + k IN
  IF t >= 31 THEN n = -2147483647 - 1 /\ s[1] = -1 /\ t = 31
  ELSE IF t >= 0 THEN n \div Pow2(t) = s[1] /\ n % Pow2(t) = 0
  ELSE s[1] = n * Pow2(0 - t)

\* sample s = m * 2^e lies in [-1, 1]
InUnit(s) ==
  LET a == IF s[1] < 0 THEN 0 - s[1] ELSE s[1] IN
  IF s[2] >= 0 THEN a = 0 \/ (a = 1 /\ s[2] = 0)
  ELSE IF 0 - s[2] >= 31 THEN TRUE
  ELSE a <= Pow2(0 - s[2])

\* sample s is n rounded to 24 significant bits (nearest, ties to even)
\* and divided by 2^k
IsRounded(s, n, k) ==
  LET t == s[2] + k IN
  IF t >= 31 THEN n = -2147483647 - 1 /\ s[1] = -1 /\ t = 31
  ELSE LET q == n \div Pow2(t)
           r == n % Pow2(t)
       IN  /\ s[1] \in {q, q + 1}
           /\ s[1] = q => 2 * r <= Pow2(t)
           /\ s[1] = q + 1 => 2 * r >= Pow2(t)
           /\ (t > 0 /\ 2 * r = Pow2(t)) => s[1] % 2 = 0
           /\ s[1] <= 16777216 /\ 0 - s[1] <= 16777216

\* the cases the claim names: 16-bit -32768, and the bytes 128, 0 and 255
NamedCases ==
  /\ (Len(buf) = 2 /\ RawValue = -32768) => IsRational(Decoded, -1, 0)
  /\ buf = <<128>> => IsRational(Decoded, 0, 0)
  /\ buf = <<0>> => IsRational(Decoded, -1, 0)
  /\ buf = <<255>> => IsRational(Decoded, 127, 7)

\* C12, as claimed: a raw sample of width w decodes to exactly its signed
\* value over 2^(w-1) (8-bit: (byte - 128) / 128), within [-1, 1]
C12_PcmExact ==
  pc = "decoded" =>
    /\ it[1].last = "Some"
    /\ IsRational(Decoded, RawValue, 8 * Len(buf) - 1)
    /\ InUnit(Decoded)
    /\ NamedCases

\* C12, amended: 8-, 16- and 24-bit samples decode exactly; a 32-bit
\* sample decodes to its value rounded to 24 significant bits over 2^31;
\* all lie in [-1, 1], and the named cases hold
C12_PcmExactUpToF32 ==
  pc = "decoded" =>
    /\ it[1].last = "Some"
    /\ Len(buf) < 4 => IsRational(Decoded, RawValue, 8 * Len(buf) - 1)
    /\ Len(buf) = 4 => IsRounded(Decoded, RawValue, 31)
    /\ InUnit(Decoded)
    /\ NamedCases

\* C12 witness: a decoded 32-bit sample that had to be rounded
C12_Witness ==
  /\ pc = "decoded"
  /\ Len(buf) = 4
  /\ ~IsRational(Decoded, RawValue, 31)

\* C13: on every handle the resolved encoding and bits_per_sample are one
\* of PCM/8, PCM/16, PCM/24, PCM/32, IEEEFloat/32, IEEEFloat/64; no next()
\* reaches an unreachable arm, and frames are decoded at the header's width
C13_SupportedWidthsOnly ==
  /\ pc \in {"opened", "aborted"} =>
        <<data_format(info), info.bits_per_sample>> \in
          {<<"PCM", 8>>, <<"PCM", 16>>, <<"PCM", 24>>, <<"PCM", 32>>,
           <<"IEEEFloat", 32>>, <<"IEEEFloat", 64>>}
  /\ \A i \in Iters : it[i].state = "live" =>
        /\ ~(it[i].last = "Panic" /\ ~it[i].short)
        /\ 8 * it[i].bytes_per_sample = info.bits_per_sample

\* C14: once the walker has parsed a fmt chunk of declared size S, the
\* cursor is S bytes past the end of the chunk's 8-byte header
C14_CursorAfterFmtChunk ==
  (pc = "loop" /\ seen # <<>> /\ seen[Len(seen)] = FMT_)
    => cursor = fmt_chunk.start + fmt_chunk.size

====
